---------------------------- MODULE Spec2Model ----------------------------
(***************************************************************************)
(* Model of src/main.py of Central-Fuel-Plan: the batch pipeline           *)
(*   load_data -> clean_and_filter -> generate_dashboard                   *)
(* and the date parser safe_parse_date.                                    *)
(*                                                                         *)
(* Text is modelled as a sequence of one-character strings, so that        *)
(* strip / lower / upper / replace / strptime / strftime are computed      *)
(* character by character as the code (and the library it calls) does.     *)
(*                                                                         *)
(* Two specifications:                                                     *)
(*   Spec      one run of main() on a sheet drawn from a bounded set       *)
(*   DateSpec  safe_parse_date applied to one value drawn from a bounded   *)
(*             set of values                                               *)
(***************************************************************************)
EXTENDS Integers, Sequences, FiniteSets, TLC

VARIABLES
    live,        \* the sheet behind SHEET_URL, as its CSV cells
    cache,       \* content of CACHE_PATH, or NoFile
    pc,          \* position of main()
    df,          \* the DataFrame `df` of load_data / clean_and_filter
    loaded,      \* the DataFrame load_data returned (kept for reference)
    stages,      \* the per-stage row counts clean_and_filter prints
    parsedIdx,   \* index labels of the rows safe_parse_date was applied to
    cleanDf,     \* the DataFrame clean_and_filter returns
    outputFile,  \* content of OUTPUT_JSON, or NoFile
    writes,      \* number of times OUTPUT_JSON was opened for writing
    err,         \* the exception that ended the run, or NoErr
    dIn,         \* DateSpec: the argument `value` of safe_parse_date
    dPc,         \* DateSpec: "call" before the call, "ret" after it
    dRes         \* DateSpec: what the call did (result and trace)

vars == <<live, cache, pc, df, loaded, stages, parsedIdx, cleanDf,
          outputFile, writes, err, dIn, dPc, dRes>>

-----------------------------------------------------------------------------
(* Characters and text *)

Digits == <<"0", "1", "2", "3", "4", "5", "6", "7", "8", "9">>
Uppers == <<"A", "B", "C", "D", "E", "F", "G", "H", "I", "J", "K", "L", "M",
            "N", "O", "P", "Q", "R", "S", "T", "U", "V", "W", "X", "Y", "Z">>
Lowers == <<"a", "b", "c", "d", "e", "f", "g", "h", "i", "j", "k", "l", "m",
            "n", "o", "p", "q", "r", "s", "t", "u", "v", "w", "x", "y", "z">>

\* the characters str.strip() and the regex class \s remove / match
Whitespace == {" ", "\t", "\n", "\r"}

IsDigit(c) == \E i \in 1..10 : Digits[i] = c
DigitVal(c) == (CHOOSE i \in 1..10 : Digits[i] = c) - 1

LowerChar(c) ==
    IF \E i \in 1..26 : Uppers[i] = c
    THEN Lowers[CHOOSE i \in 1..26 : Uppers[i] = c]
    ELSE c

UpperChar(c) ==
    IF \E i \in 1..26 : Lowers[i] = c
    THEN Uppers[CHOOSE i \in 1..26 : Lowers[i] = c]
    ELSE c

\* str.lower(), str.upper()
StrLower(s) == [i \in 1..Len(s) |-> LowerChar(s[i])]
StrUpper(s) == [i \in 1..Len(s) |-> UpperChar(s[i])]

\* str.strip(): drop leading and trailing whitespace, keep the inside
StrStrip(s) ==
    LET idx == {i \in 1..Len(s) : s[i] \notin Whitespace}
    IN  IF idx = {} THEN <<>>
        ELSE LET lo == CHOOSE i \in idx : \A j \in idx : i <= j
                 hi == CHOOSE i \in idx : \A j \in idx : i >= j
             IN  SubSeq(s, lo, hi)

NotSpaceChar(c) == c # " "

\* str.replace(" ", ""): drop every blank, and only blanks
StrRemoveSpaces(s) == SelectSeq(s, NotSpaceChar)

\* str(n) of a non-negative integer
RECURSIVE IntText(_)
IntText(n) ==
    IF n < 10 THEN <<Digits[n + 1]>>
    ELSE Append(IntText(n \div 10), Digits[(n % 10) + 1])

\* value of a non-empty run of digits
RECURSIVE DigitsVal(_)
DigitsVal(s) ==
    IF Len(s) = 0 THEN 0
    ELSE 10 * DigitsVal(SubSeq(s, 1, Len(s) - 1)) + DigitVal(s[Len(s)])

AllDigits(s) == \A i \in 1..Len(s) : IsDigit(s[i])

\* zero-padded decimal fields, as strftime writes %m, %d (2) and %Y (4)
Pad2(n) == <<Digits[((n \div 10) % 10) + 1], Digits[(n % 10) + 1]>>
Pad4(n) == <<Digits[((n \div 1000) % 10) + 1], Digits[((n \div 100) % 10) + 1],
             Digits[((n \div 10) % 10) + 1], Digits[(n % 10) + 1]>>

-----------------------------------------------------------------------------
(* Calendar dates *)

NoDate == [k |-> "none", y |-> 0, m |-> 0, d |-> 0]    \* Python None
Raised == [k |-> "raise", y |-> 0, m |-> 0, d |-> 0]   \* an exception
MkDate(y, m, d) == [k |-> "date", y |-> y, m |-> m, d |-> d]

IsLeap(y) == (y % 4 = 0 /\ y % 100 # 0) \/ y % 400 = 0

DaysInMonth(y, m) ==
    IF m = 2 THEN (IF IsLeap(y) THEN 29 ELSE 28)
    ELSE IF m \in {4, 6, 9, 11} THEN 30 ELSE 31

\* what the datetime constructor accepts (MINYEAR = 1)
ValidYMD(y, m, d) ==
    /\ y >= 1 /\ y <= 9999
    /\ m >= 1 /\ m <= 12
    /\ d >= 1 /\ d <= DaysInMonth(y, m)

MonthAbbr == << <<"j","a","n">>, <<"f","e","b">>, <<"m","a","r">>,
                <<"a","p","r">>, <<"m","a","y">>, <<"j","u","n">>,
                <<"j","u","l">>, <<"a","u","g">>, <<"s","e","p">>,
                <<"o","c","t">>, <<"n","o","v">>, <<"d","e","c">> >>


-----------------------------------------------------------------------------
(* datetime.strptime(s, fmt), for the directives the code uses.            *)
(* A format is the sequence of its directives and literal characters.      *)
(* strptime compiles the format to a regular expression                    *)
(*   %m  1[0-2]|0[1-9]|[1-9]                                               *)
(*   %d  3[0-1]|[1-2]\d|0[1-9]|[1-9]| [1-9]                                *)
(*   %Y  \d\d\d\d                                                          *)
(*   %b  jan|feb|...|dec      (case-insensitive)                           *)
(*   a blank in the format    \s+                                          *)
(* matches it at the start of s, raises ValueError when text remains after *)
(* the match, and raises ValueError when the fields are not a date.        *)

NoMatch == [ok |-> FALSE, end |-> 0, y |-> 0, m |-> 0, d |-> 0]

HasAt(s, pos, n) == pos + n - 1 <= Len(s)

\* two digits at pos with a value in lo..hi
TwoDigitsAt(s, pos, lo, hi) ==
    /\ HasAt(s, pos, 2)
    /\ IsDigit(s[pos]) /\ IsDigit(s[pos + 1])
    /\ LET v == 10 * DigitVal(s[pos]) + DigitVal(s[pos + 1])
       IN  v >= lo /\ v <= hi

\* one digit 1..9 at pos
OneDigitAt(s, pos) ==
    HasAt(s, pos, 1) /\ IsDigit(s[pos]) /\ DigitVal(s[pos]) >= 1

MonthAt(s, pos) ==
    IF HasAt(s, pos, 3)
    THEN LET w == StrLower(SubSeq(s, pos, pos + 2))
         IN  IF \E i \in 1..12 : MonthAbbr[i] = w
             THEN CHOOSE i \in 1..12 : MonthAbbr[i] = w
             ELSE 0
    ELSE 0

\* number of whitespace characters of s from pos on
RECURSIVE WsRun(_, _)
WsRun(s, pos) ==
    IF pos <= Len(s) /\ s[pos] \in Whitespace THEN 1 + WsRun(s, pos + 1) ELSE 0

RECURSIVE MatchFmt(_, _, _, _, _)
RECURSIVE MatchWs(_, _, _, _, _, _)

\* \s+ : the longest run first, then shorter ones, at least one character
MatchWs(s, pos, n, fmt, i, acc) ==
    IF n < 1 THEN NoMatch
    ELSE LET r == MatchFmt(s, pos + n, fmt, i + 1, acc)
         IN  IF r.ok THEN r ELSE MatchWs(s, pos, n - 1, fmt, i, acc)

\* the regular-expression match of fmt[i..] against s[pos..]; alternatives
\* are tried in the order the expression lists them
MatchFmt(s, pos, fmt, i, acc) ==
    IF i > Len(fmt)
    THEN [ok |-> TRUE, end |-> pos, y |-> acc.y, m |-> acc.m, d |-> acc.d]
    ELSE
      LET tok == fmt[i] IN
      CASE tok = "%m" ->
             LET r2 == IF TwoDigitsAt(s, pos, 1, 12)
                       THEN MatchFmt(s, pos + 2, fmt, i + 1,
                              [acc EXCEPT !.m = DigitsVal(SubSeq(s, pos, pos + 1))])
                       ELSE NoMatch
             IN  IF r2.ok THEN r2
                 ELSE IF OneDigitAt(s, pos)
                      THEN MatchFmt(s, pos + 1, fmt, i + 1,
                             [acc EXCEPT !.m = DigitVal(s[pos])])
                      ELSE NoMatch
        [] tok = "%d" ->
             LET r2 == IF TwoDigitsAt(s, pos, 1, 31)
                       THEN MatchFmt(s, pos + 2, fmt, i + 1,
                              [acc EXCEPT !.d = DigitsVal(SubSeq(s, pos, pos + 1))])
                       ELSE NoMatch
                 r1 == IF OneDigitAt(s, pos)
                       THEN MatchFmt(s, pos + 1, fmt, i + 1,
                              [acc EXCEPT !.d = DigitVal(s[pos])])
                       ELSE NoMatch
             IN  IF r2.ok THEN r2
                 ELSE IF r1.ok THEN r1
                 ELSE IF HasAt(s, pos, 2) /\ s[pos] = " " /\ OneDigitAt(s, pos + 1)
                      THEN MatchFmt(s, pos + 2, fmt, i + 1,
                             [acc EXCEPT !.d = DigitVal(s[pos + 1])])
                      ELSE NoMatch
        [] tok = "%Y" ->
             IF HasAt(s, pos, 4) /\ AllDigits(SubSeq(s, pos, pos + 3))
             THEN MatchFmt(s, pos + 4, fmt, i + 1,
                    [acc EXCEPT !.y = DigitsVal(SubSeq(s, pos, pos + 3))])
             ELSE NoMatch
        [] tok = "%b" ->
             IF MonthAt(s, pos) # 0
             THEN MatchFmt(s, pos + 3, fmt, i + 1,
                    [acc EXCEPT !.m = MonthAt(s, pos)])
             ELSE NoMatch
        [] tok = " " ->
             MatchWs(s, pos, WsRun(s, pos), fmt, i, acc)
        [] OTHER ->
             IF HasAt(s, pos, 1) /\ s[pos] = tok
             THEN MatchFmt(s, pos + 1, fmt, i + 1, acc)
             ELSE NoMatch

\* what strptime makes of the match r of its expression against s
DateOfMatch(s, r) ==
    IF ~r.ok THEN Raised                     \* does not match format
    ELSE IF r.end # Len(s) + 1 THEN Raised   \* unconverted data remains
    ELSE IF ~ValidYMD(r.y, r.m, r.d) THEN Raised
    ELSE MkDate(r.y, r.m, r.d)

\* datetime.strptime(s, fmt): a date, or Raised (ValueError)
Strptime(s, fmt) ==
    DateOfMatch(s, MatchFmt(s, 1, fmt, 1, [y |-> 0, m |-> 0, d |-> 0]))

\* Series.dt.strftime("%Y-%m-%d")
Strftime(dt) == Pad4(dt.y) \o <<"-">> \o Pad2(dt.m) \o <<"-">> \o Pad2(dt.d)

-----------------------------------------------------------------------------
(* Values: what a cell of a DataFrame, or an argument of safe_parse_date,  *)
(* can be.  Every value has the same fields; `t` tells which one counts.   *)

NoFloat == [k |-> "nan", neg |-> FALSE, ip |-> 0, fp |-> <<>>]
\* a finite float  (-)ip.fp , fp being its decimal digits after the point
Fin(neg, ip, fp) == [k |-> "fin", neg |-> neg, ip |-> ip, fp |-> fp]
Inf(neg) == [k |-> "inf", neg |-> neg, ip |-> 0, fp |-> <<>>]

PyNone   == [t |-> "none", s |-> <<>>, n |-> 0, f |-> NoFloat, dt |-> NoDate]
NaN      == [t |-> "nan",  s |-> <<>>, n |-> 0, f |-> NoFloat, dt |-> NoDate]
StrV(s)  == [t |-> "str",  s |-> s,    n |-> 0, f |-> NoFloat, dt |-> NoDate]
IntV(n)  == [t |-> "int",  s |-> <<>>, n |-> n, f |-> NoFloat, dt |-> NoDate]
FltV(f)  == [t |-> "flt",  s |-> <<>>, n |-> 0, f |-> f,       dt |-> NoDate]
DtV(d)   == [t |-> "dt",   s |-> <<>>, n |-> 0, f |-> NoFloat, dt |-> d]

\* repr of a float: 45640.0, 24.7136, inf, -inf, nan
FloatText(f) ==
    CASE f.k = "fin" ->
           (IF f.neg THEN <<"-">> ELSE <<>>) \o IntText(f.ip) \o <<".">>
             \o (IF f.fp = <<>> THEN <<"0">> ELSE f.fp)
      [] f.k = "inf" -> (IF f.neg THEN <<"-">> ELSE <<>>) \o <<"i", "n", "f">>
      [] OTHER -> <<"n", "a", "n">>

\* str(value), and Series.astype(str) on one cell
PyStr(v) ==
    CASE v.t = "str"  -> v.s
      [] v.t = "int"  -> IntText(v.n)
      [] v.t = "flt"  -> FloatText(v.f)
      [] v.t = "nan"  -> <<"n", "a", "n">>
      [] v.t = "none" -> <<"N", "o", "n", "e">>
      [] OTHER        -> Strftime(v.dt) \o <<" ", "0", "0", ":", "0", "0", ":", "0", "0">>

\* pd.isna(value) of a scalar
PdIsNa(v) == v.t \in {"nan", "none"} \/ (v.t = "flt" /\ v.f.k = "nan")

-----------------------------------------------------------------------------
(* safe_parse_date *)

ErrorTokens == { <<"#", "N", "/", "A">>,
                 <<"#", "D", "I", "V", "/", "0", "!">>,
                 <<"#", "V", "A", "L", "U", "E", "!">>,
                 <<"N", "/", "A">> }

F_mdY_dash  == <<"%m", "-", "%d", "-", "%Y">>
F_Ymd_dash  == <<"%Y", "-", "%m", "-", "%d">>
F_dmY_dash  == <<"%d", "-", "%m", "-", "%Y">>
F_dmY_slash == <<"%d", "/", "%m", "/", "%Y">>
F_mdY_slash == <<"%m", "/", "%d", "/", "%Y">>
F_dbY_dash  == <<"%d", "-", "%b", "-", "%Y">>
F_dbY_blank == <<"%d", " ", "%b", " ", "%Y">>

formats_DayFirst ==
    <<F_dmY_dash, F_Ymd_dash, F_mdY_dash, F_dmY_slash, F_mdY_slash,
      F_dbY_dash, F_dbY_blank>>

\* the list `formats`, in its order
formats ==
    <<F_mdY_dash, F_Ymd_dash, F_dmY_dash, F_dmY_slash, F_mdY_slash,
      F_dbY_dash, F_dbY_blank>>

\* the loop over `formats` from index i on: the first strptime that does
\* not raise returns; `tried` lists the formats strptime was called with
RECURSIVE TryFormats(_, _, _)
TryFormats(s, i, tried) ==
    IF i > Len(formats)
    THEN [out |-> Raised, tried |-> tried]
    ELSE LET r == Strptime(s, formats[i])
         IN  IF r.k = "date"
             THEN [out |-> r, tried |-> Append(tried, formats[i])]
             ELSE TryFormats(s, i + 1, Append(tried, formats[i]))

\* pd.to_datetime(s, errors="raise") of a text that none of the formats
\* parsed.  The texts pandas parses that are modelled: YYYY/MM/DD, and a bare
\* four-digit year (first of January); every other text of the modelled
\* inputs (no date at all, an impossible calendar date, a run of digits that
\* is no year) makes it raise.
PdToDatetime(s) ==
    IF Strptime(s, <<"%Y", "/", "%m", "/", "%d">>).k = "date"
    THEN Strptime(s, <<"%Y", "/", "%m", "/", "%d">>)
    ELSE IF Len(s) = 4 /\ AllDigits(s) /\ DigitsVal(s) >= 1678 /\ DigitsVal(s) <= 2261
         THEN MkDate(DigitsVal(s), 1, 1)
    ELSE Raised

Fallback_NoCatch(s) == PdToDatetime(s)

\* the last resort: try: pd.to_datetime(...) except Exception: return None
Fallback(s) ==
    LET r == PdToDatetime(s)
    IN  IF r.k = "raise" THEN NoDate ELSE r

Ret(out, tried, fb) == [out |-> out, tried |-> tried, fallback |-> fb]

\* the calendar date n days after 1899-12-30 (the spreadsheet day serial n)
SerialDate(n) ==
    LET z   == n + 693899
        era == z \div 146097
        doe == z - era * 146097
        yoe == (doe - doe \div 1460 + doe \div 36524 - doe \div 146096) \div 365
        doy == doe - (365 * yoe + yoe \div 4 - yoe \div 100)
        mp  == (5 * doy + 2) \div 153
        d   == doy - (153 * mp + 2) \div 5 + 1
        m   == IF mp < 10 THEN mp + 3 ELSE mp - 9
        y   == yoe + era * 400 + (IF m <= 2 THEN 1 ELSE 0)
    IN  MkDate(y, m, d)

\* safe_parse_date with a serial branch for numbers
SafeParseDate_Serial(value) ==
    IF value.t = "none" THEN Ret(NoDate, <<>>, FALSE)
    ELSE IF value.t = "dt" THEN Ret(value.dt, <<>>, FALSE)
    ELSE IF PdIsNa(value) THEN Ret(NoDate, <<>>, FALSE)
    ELSE IF value.t = "int" /\ value.n >= 0 THEN Ret(SerialDate(value.n), <<>>, FALSE)
    ELSE IF value.t = "flt" /\ value.f.k = "fin" /\ ~value.f.neg
         THEN Ret(SerialDate(value.f.ip), <<>>, FALSE)
    ELSE LET s == StrStrip(PyStr(value)) IN
         IF s = <<>> THEN Ret(NoDate, <<>>, FALSE)
         ELSE IF s \in ErrorTokens THEN Ret(NoDate, <<>>, FALSE)
         ELSE LET r == TryFormats(s, 1, <<>>)
              IN  IF r.out.k = "date" THEN Ret(r.out, r.tried, FALSE)
                  ELSE Ret(Fallback(s), r.tried, TRUE)

\* safe_parse_date(value): `out` is what it returns (a date, NoDate for
\* None, Raised when an exception leaves it), `tried` the formats it called
\* strptime with, `fallback` whether it called pd.to_datetime on the text
SafeParseDate(value) ==
    IF value.t = "none" THEN Ret(NoDate, <<>>, FALSE)
    ELSE IF value.t = "dt" THEN Ret(value.dt, <<>>, FALSE)
    ELSE IF PdIsNa(value) THEN Ret(NoDate, <<>>, FALSE)
    ELSE LET s == StrStrip(PyStr(value)) IN
         IF s = <<>> THEN Ret(NoDate, <<>>, FALSE)
         ELSE IF s \in ErrorTokens THEN Ret(NoDate, <<>>, FALSE)
         ELSE LET r == TryFormats(s, 1, <<>>)
              IN  IF r.out.k = "date" THEN Ret(r.out, r.tried, FALSE)
                  ELSE Ret(Fallback(s), r.tried, TRUE)

-----------------------------------------------------------------------------
(* Numbers in text: what pd.read_csv and pd.to_numeric read as a float.    *)
(* Modelled: an optional sign, digits with at most one decimal point, and  *)
(* the spellings of infinity; exponents are not modelled.                  *)

\* fp without its trailing zeros: 24.50 and 24.5 are the same float
RECURSIVE DropTrailingZeros(_)
DropTrailingZeros(s) ==
    IF Len(s) > 0 /\ s[Len(s)] = "0"
    THEN DropTrailingZeros(SubSeq(s, 1, Len(s) - 1))
    ELSE s

InfTexts == { <<"i", "n", "f">>, <<"i", "n", "f", "i", "n", "i", "t", "y">> }

\* the float a text denotes, or NoFloat (NaN) when it denotes none
ParseFloat(s) ==
    LET signed == Len(s) > 0 /\ s[1] \in {"+", "-"}
        neg    == signed /\ s[1] = "-"
        body   == IF signed THEN SubSeq(s, 2, Len(s)) ELSE s
        dots   == {i \in 1..Len(body) : body[i] = "."}
        dot    == IF dots = {} THEN Len(body) + 1 ELSE CHOOSE i \in dots : TRUE
        ipart  == SubSeq(body, 1, dot - 1)
        fpart  == SubSeq(body, dot + 1, Len(body))
    IN  IF StrLower(body) \in InfTexts THEN Inf(neg)
        ELSE IF /\ Cardinality(dots) <= 1
                /\ AllDigits(ipart) /\ AllDigits(fpart)
                /\ Len(ipart) + Len(fpart) > 0
             THEN Fin(neg, DigitsVal(ipart), DropTrailingZeros(fpart))
        ELSE NoFloat

\* a text that read_csv reads as an integer
IsIntText(s) ==
    LET signed == Len(s) > 0 /\ s[1] \in {"+", "-"}
        body   == IF signed THEN SubSeq(s, 2, Len(s)) ELSE s
    IN  Len(body) > 0 /\ AllDigits(body)

IntOfText(s) ==
    IF s[1] = "-" THEN 0 - DigitsVal(SubSeq(s, 2, Len(s)))
    ELSE IF s[1] = "+" THEN DigitsVal(SubSeq(s, 2, Len(s)))
    ELSE DigitsVal(s)

\* pd.to_numeric(cell, errors="coerce")
ToNumeric(v) ==
    CASE v.t = "int" -> Fin(v.n < 0, IF v.n < 0 THEN 0 - v.n ELSE v.n, <<>>)
      [] v.t = "flt" -> v.f
      [] v.t = "str" -> ParseFloat(v.s)
      [] OTHER       -> NoFloat

-----------------------------------------------------------------------------
(* Sheets (CSV text) and DataFrames *)

\* a CSV document: the header texts and, per data row, the cell texts
Sheet(cols, rows) == [cols |-> cols, rows |-> rows]

\* the texts read_csv reads as a missing value (its default na_values)
NaValues == { <<>>, <<"#", "N", "/", "A">>, <<"N", "/", "A">>, <<"N", "A">>, <<"N", "a", "N">>, <<"n", "a", "n">>, <<"n", "/", "a">>, <<"N", "U", "L", "L">>,
              <<"n", "u", "l", "l">>, <<"#", "N", "A">>, <<"<", "N", "A", ">">> }

\* a DataFrame row: its index label, its cells by column position, and the
\* columns clean_and_filter adds
Row(idx, cells) ==
    [idx |-> idx, cells |-> cells,
     parsed_date |-> NoDate, lat_num |-> NoFloat, lng_num |-> NoFloat]

Frame(cols, rows) == [cols |-> cols, rows |-> rows]
EmptyFrame == Frame(<<>>, <<>>)

\* the dtype read_csv gives column j: "int", "flt" or "obj"
ColType(sheet, j) ==
    LET texts == {sheet.rows[r][j] : r \in 1..Len(sheet.rows)}
        given == texts \ NaValues
    IN  IF texts # {} /\ texts \cap NaValues = {} /\ (\A s \in given : IsIntText(s))
        THEN "int"
        ELSE IF texts # {} /\ (\A s \in given : ParseFloat(s).k # "nan")
        THEN "flt"
        ELSE "obj"

\* pd.read_csv: missing-value texts become NaN, a column of numbers becomes
\* numeric, every other cell keeps its text; rows are labelled 0, 1, ...
ReadCsv(sheet) ==
    LET dtype == [j \in 1..Len(sheet.cols) |-> ColType(sheet, j)]
        Value(s, j) ==
            IF s \in NaValues THEN NaN
            ELSE CASE dtype[j] = "int" -> IntV(IntOfText(s))
                   [] dtype[j] = "flt" -> FltV(ParseFloat(s))
                   [] OTHER -> StrV(s)
    IN  Frame(sheet.cols,
              [r \in 1..Len(sheet.rows) |->
                 Row(r - 1, [j \in 1..Len(sheet.cols) |-> Value(sheet.rows[r][j], j)])])

\* DataFrame.to_csv(index=False): NaN is written as an empty cell
ToCsv(frame) ==
    Sheet(frame.cols,
          [r \in 1..Len(frame.rows) |->
             [j \in 1..Len(frame.cols) |->
                LET v == frame.rows[r].cells[j] IN
                IF PdIsNa(v) THEN <<>> ELSE PyStr(v)]])

NoFile == [exists |-> FALSE, content |-> Sheet(<<>>, <<>>)]
File(sheet) == [exists |-> TRUE, content |-> sheet]

HasCol(frame, name) == \E j \in 1..Len(frame.cols) : frame.cols[j] = name
ColIdx(frame, name) == CHOOSE j \in 1..Len(frame.cols) : frame.cols[j] = name
\* df[name] of one row
Cell(frame, row, name) == row.cells[ColIdx(frame, name)]
\* df[name] = f(df[name]) on one row
SetCell(frame, row, name, v) ==
    [row EXCEPT !.cells = [row.cells EXCEPT ![ColIdx(frame, name)] = v]]

-----------------------------------------------------------------------------
(* main(): load_data, clean_and_filter, generate_dashboard *)

NoErr == [type |-> "none", listed |-> <<>>]
\* an exception: its type and the column names its message lists
Error(type, listed) == [type |-> type, listed |-> listed]

NoOutput == [exists |-> FALSE, content |-> <<>>]

site_col   == <<"s", "i", "t", "e", "n", "a", "m", "e">>
region_col == <<"r", "e", "g", "i", "o", "n", "n", "a", "m", "e">>
status_col == <<"c", "o", "w", "s", "t", "a", "t", "u", "s">>
date_col   == <<"n", "e", "x", "t", "f", "u", "e", "l", "i", "n", "g", "p", "l", "a", "n">>
lat_col    == <<"l", "a", "t">>
lng_col    == <<"l", "n", "g">>

required == <<site_col, region_col, status_col, date_col, lat_col, lng_col>>

MissingColumns_FirstOnly(cols) ==
    LET present == {cols[j] : j \in 1..Len(cols)}
        Absent(c) == c \notin present
        missing == SelectSeq(required, Absent)
    IN  IF missing = <<>> THEN <<>> ELSE <<missing[1]>>

\* missing = [c for c in required if c not in df.columns]
MissingColumns(cols) ==
    LET present == {cols[j] : j \in 1..Len(cols)}
        Absent(c) == c \notin present
    IN  SelectSeq(required, Absent)

NormaliseHeader_NoBlanks(h) == StrLower(StrStrip(h))

\* one label of df.columns after .str.strip().str.lower().str.replace(" ", "")
NormaliseHeader(h) == StrRemoveSpaces(StrLower(StrStrip(h)))

FilterRows_Appends(rows, mask) ==
    rows \o [i \in 1..Cardinality({j \in 1..Len(rows) : mask[j]}) |-> rows[i]]

\* df[mask], df.dropna(...): the rows whose mask entry is true, in their
\* order and with their index labels
RECURSIVE FilterRows(_, _)
FilterRows(rows, mask) ==
    IF rows = <<>> THEN <<>>
    ELSE (IF Head(mask) THEN <<Head(rows)>> ELSE <<>>)
           \o FilterRows(Tail(rows), Tail(mask))

\* what a filter step reports: the row counts it prints, and (for
\* reference) the index labels of the rows it kept
StageCount(name, before, after) ==
    [name |-> name, before |-> Len(before), after |-> Len(after),
     removed |-> Len(before) - Len(after),
     idx |-> [i \in 1..Len(after) |-> after[i].idx]]

\* the live sheet loads; the cache is refreshed unless writing it fails
LoadLive ==
    /\ pc = "start"
    /\ df' = ReadCsv(live)
    /\ \E cacheWriteOk \in BOOLEAN :
         cache' = IF cacheWriteOk THEN File(ToCsv(df')) ELSE cache
    /\ loaded' = df'
    /\ pc' = "loaded"
    /\ UNCHANGED <<live, stages, parsedIdx, cleanDf, outputFile, writes, err,
                   dIn, dPc, dRes>>

\* the live sheet fails and the cache is read instead
LoadCache ==
    /\ pc = "start"
    /\ cache.exists
    /\ df' = ReadCsv(cache.content)
    /\ loaded' = df'
    /\ pc' = "loaded"
    /\ UNCHANGED <<live, cache, stages, parsedIdx, cleanDf, outputFile, writes, err,
                   dIn, dPc, dRes>>

LoadFails_WritesEmpty ==
    /\ pc = "start"
    /\ ~cache.exists
    /\ err' = Error("FileNotFoundError", <<>>)
    /\ outputFile' = [exists |-> TRUE, content |-> <<>>]
    /\ writes' = writes + 1
    /\ pc' = "aborted"
    /\ UNCHANGED <<live, cache, df, loaded, stages, parsedIdx, cleanDf,
                   dIn, dPc, dRes>>

\* the live sheet fails and there is no cache: FileNotFoundError
LoadFails ==
    /\ pc = "start"
    /\ ~cache.exists
    /\ err' = Error("FileNotFoundError", <<>>)
    /\ pc' = "aborted"
    /\ UNCHANGED <<live, cache, df, loaded, stages, parsedIdx, cleanDf,
                   outputFile, writes,
                   dIn, dPc, dRes>>

\* clean_and_filter, step 1: normalise the column labels and check that the
\* required ones exist
NormaliseColumns ==
    /\ pc = "loaded"
    /\ LET cols    == [j \in 1..Len(df.cols) |-> NormaliseHeader(df.cols[j])]
           missing == MissingColumns(cols)
       IN  /\ df' = [df EXCEPT !.cols = cols]
           /\ IF missing # <<>>
              THEN /\ err' = Error("KeyError", missing)
                   /\ pc' = "aborted"
              ELSE /\ err' = err
                   /\ pc' = "columns"
    /\ UNCHANGED <<live, cache, loaded, stages, parsedIdx, cleanDf,
                   outputFile, writes,
                   dIn, dPc, dRes>>

RegionKeep_AnyRegion(row) == TRUE

\* the row's region text, stripped and lower-cased, is "central"
RegionKeep(row) ==
    StrLower(StrStrip(Cell(df, row, region_col).s)) = <<"c", "e", "n", "t", "r", "a", "l">>

\* step 2: region filter
RegionFilter ==
    /\ pc = "columns"
    /\ LET AsStr(row) == SetCell(df, row, region_col,
                                 StrV(PyStr(Cell(df, row, region_col))))
           typed == [i \in 1..Len(df.rows) |-> AsStr(df.rows[i])]
           kept  == FilterRows(typed, [i \in 1..Len(typed) |-> RegionKeep(typed[i])])
       IN  /\ df' = [df EXCEPT !.rows = kept]
           /\ stages' = Append(stages, StageCount("region", df.rows, kept))
    /\ pc' = "region"
    /\ UNCHANGED <<live, cache, loaded, parsedIdx, cleanDf, outputFile, writes, err,
                   dIn, dPc, dRes>>

StatusValues == { <<"O", "N", "-", "A", "I", "R">>, <<"I", "N", " ", "P", "R", "O", "G", "R", "E", "S", "S">> }

StatusKeep(row) == Cell(df, row, status_col).s \in StatusValues

\* step 3: status filter
StatusFilter ==
    /\ pc = "region"
    /\ LET Norm(row) == SetCell(df, row, status_col,
                          StrV(StrStrip(StrUpper(PyStr(Cell(df, row, status_col))))))
           normed == [i \in 1..Len(df.rows) |-> Norm(df.rows[i])]
           kept   == FilterRows(normed, [i \in 1..Len(normed) |-> StatusKeep(normed[i])])
       IN  /\ df' = [df EXCEPT !.rows = kept]
           /\ stages' = Append(stages, StageCount("status", df.rows, kept))
    /\ pc' = "status"
    /\ UNCHANGED <<live, cache, loaded, parsedIdx, cleanDf, outputFile, writes, err,
                   dIn, dPc, dRes>>

HasDate(row) == row.parsed_date.k = "date"

\* step 4: parse the fueling-plan cell of every remaining row, drop the rows
\* it gave None for
DateFilter ==
    /\ pc = "status"
    /\ LET Parse(row) ==
               [row EXCEPT !.parsed_date = SafeParseDate(Cell(df, row, date_col)).out]
           parsed == [i \in 1..Len(df.rows) |-> Parse(df.rows[i])]
           kept   == FilterRows(parsed, [i \in 1..Len(parsed) |-> HasDate(parsed[i])])
       IN  /\ df' = [df EXCEPT !.rows = kept]
           /\ stages' = Append(stages, StageCount("dates", df.rows, kept))
           /\ parsedIdx' = parsedIdx \cup {df.rows[i].idx : i \in 1..Len(df.rows)}
    /\ pc' = "dates"
    /\ UNCHANGED <<live, cache, loaded, cleanDf, outputFile, writes, err,
                   dIn, dPc, dRes>>

\* dropna(subset=["lat_num", "lng_num"]): NaN is dropped, infinity is not
HasCoords(row) == row.lat_num.k # "nan" /\ row.lng_num.k # "nan"

\* step 5: coordinates filter
CoordFilter ==
    /\ pc = "dates"
    /\ LET Num(row) ==
               [row EXCEPT !.lat_num = ToNumeric(Cell(df, row, lat_col)),
                           !.lng_num = ToNumeric(Cell(df, row, lng_col))]
           numbered == [i \in 1..Len(df.rows) |-> Num(df.rows[i])]
           kept     == FilterRows(numbered,
                                  [i \in 1..Len(numbered) |-> HasCoords(numbered[i])])
       IN  /\ df' = [df EXCEPT !.rows = kept]
           /\ stages' = Append(stages, StageCount("coords", df.rows, kept))
    /\ pc' = "coords"
    /\ UNCHANGED <<live, cache, loaded, parsedIdx, cleanDf, outputFile, writes, err,
                   dIn, dPc, dRes>>

\* one row of clean_df; idx is its index label
CleanRow(row) ==
    [idx             |-> row.idx,
     SiteName        |-> StrStrip(PyStr(Cell(df, row, site_col))),
     Region          |-> StrStrip(PyStr(Cell(df, row, region_col))),
     COWStatus       |-> StrStrip(PyStr(Cell(df, row, status_col))),
     NextFuelingPlan |-> row.parsed_date,
     lat             |-> row.lat_num,
     lng             |-> row.lng_num]

\* step 6: build the cleaned dataframe and return it
BuildClean ==
    /\ pc = "coords"
    /\ cleanDf' = [i \in 1..Len(df.rows) |-> CleanRow(df.rows[i])]
    /\ pc' = "cleaned"
    /\ UNCHANGED <<live, cache, df, loaded, stages, parsedIdx, outputFile, writes, err,
                   dIn, dPc, dRes>>

\* one record of df.to_dict(orient="records"); the index label is not part
\* of it
Record(crow) ==
    [SiteName        |-> crow.SiteName,
     Region          |-> crow.Region,
     COWStatus       |-> crow.COWStatus,
     NextFuelingPlan |-> Strftime(crow.NextFuelingPlan),
     lat             |-> crow.lat,
     lng             |-> crow.lng]

generate_dashboard_SkipsEmpty ==
    /\ pc = "cleaned"
    /\ IF cleanDf = <<>>
       THEN outputFile' = outputFile /\ writes' = writes
       ELSE /\ outputFile' = [exists |-> TRUE,
                              content |-> [i \in 1..Len(cleanDf) |-> Record(cleanDf[i])]]
            /\ writes' = writes + 1
    /\ pc' = "done"
    /\ UNCHANGED <<live, cache, df, loaded, stages, parsedIdx, cleanDf, err,
                   dIn, dPc, dRes>>

\* generate_dashboard: date to text, records, OUTPUT_JSON written
generate_dashboard ==
    /\ pc = "cleaned"
    /\ outputFile' = [exists |-> TRUE,
                      content |-> [i \in 1..Len(cleanDf) |-> Record(cleanDf[i])]]
    /\ writes' = writes + 1
    /\ pc' = "done"
    /\ UNCHANGED <<live, cache, df, loaded, stages, parsedIdx, cleanDf, err,
                   dIn, dPc, dRes>>

-----------------------------------------------------------------------------
(* The sheets one run is checked on *)

\* rows of a sheet under the canonical header, and under the other headers
MaxRows == 2
MaxAltRows == 1

\* a sheet row by logical field, as the texts of its CSV cells
SheetRow(site, region, status, date, lat, lng) ==
    [site |-> site, region |-> region, status |-> status, date |-> date,
     lat |-> lat, lng |-> lng]

RowGood     == SheetRow(<<"S", "i", "t", "e", "1">>, <<"C", "e", "n", "t", "r", "a", "l">>, <<"O", "n", "-", "A", "i", "r">>, <<"1", "2", "-", "1", "5", "-", "2", "0", "2", "5">>, <<"2", "4", ".", "7", "1", "3", "6">>, <<"4", "6", ".", "6", "7", "5", "3">>)
RowNorth    == SheetRow(<<"S", "2">>, <<"N", "o", "r", "t", "h">>, <<"O", "N", "-", "A", "I", "R">>, <<"2", "0", "2", "5", "-", "1", "2", "-", "1", "5">>, <<"2", "4", ".", "5">>, <<"4", "6", ".", "5">>)
RowPadded   == SheetRow(<<" ", "S", "3", " ">>, <<" ", "C", "E", "N", "T", "R", "A", "L", " ">>, <<"i", "n", " ", "p", "r", "o", "g", "r", "e", "s", "s", " ">>, <<"1", "5", "-", "1", "2", "-", "2", "0", "2", "5">>, <<"2", "5">>, <<"-", "4", "6", ".", "5", "0">>)
RowOffAir   == SheetRow(<<"S", "4">>, <<"c", "e", "n", "t", "r", "a", "l">>, <<"O", "F", "F", "-", "A", "I", "R">>, <<"1", "2", "-", "1", "5", "-", "2", "0", "2", "5">>, <<"2", "4", ".", "5">>, <<"4", "6", ".", "5">>)
RowDateNA   == SheetRow(<<"S", "5">>, <<"C", "e", "n", "t", "r", "a", "l">>, <<"O", "N", "-", "A", "I", "R">>, <<"#", "N", "/", "A">>, <<"2", "4", ".", "5">>, <<"4", "6", ".", "5">>)
RowSerial   == SheetRow(<<"S", "6">>, <<"C", "e", "n", "t", "r", "a", "l">>, <<"O", "N", "-", "A", "I", "R">>, <<"4", "5", "6", "4", "0">>, <<"2", "4", ".", "5">>, <<"4", "6", ".", "5">>)
RowLatAbc   == SheetRow(<<"S", "7">>, <<"C", "e", "n", "t", "r", "a", "l">>, <<"I", "N", " ", "P", "R", "O", "G", "R", "E", "S", "S">>, <<"0", "3", "-", "0", "4", "-", "2", "0", "2", "5">>, <<"a", "b", "c">>, <<"4", "6", ".", "5">>)
RowLatInf   == SheetRow(<<"S", "8">>, <<"C", "e", "n", "t", "r", "a", "l">>, <<"O", "N", "-", "A", "I", "R">>, <<"1", "5", "-", "D", "e", "c", "-", "2", "0", "2", "5">>, <<"i", "n", "f">>, <<"4", "6", ".", "5">>)
RowNoLng    == SheetRow(<<"S", "9">>, <<"C", "e", "n", "t", "r", "a", "l">>, <<"O", "N", "-", "A", "I", "R">>, <<"2", "0", "2", "5", "/", "1", "2", "/", "1", "5">>, <<"2", "4", ".", "5">>, <<>>)
RowAllBad   == SheetRow(<<"S", "1", "0">>, <<"N", "o", "r", "t", "h">>, <<"O", "F", "F", "-", "A", "I", "R">>, <<" ", "N", "/", "A", " ">>, <<"a", "b", "c">>, <<>>)

SampleRows == {RowGood, RowNorth, RowPadded, RowOffAir, RowDateNA, RowSerial,
               RowLatAbc, RowLatInf, RowNoLng, RowAllBad}

RowSeqs(max) == UNION {[1..n -> SampleRows] : n \in 0..max}

\* a column of a layout: its header text and the logical field it holds
Column(name, field) == [name |-> name, field |-> field]

LayoutCanonical ==
    <<Column(<<"S", "i", "t", "e", "N", "a", "m", "e">>, "site"), Column(<<"R", "e", "g", "i", "o", "n", "N", "a", "m", "e">>, "region"),
      Column(<<"C", "O", "W", "S", "t", "a", "t", "u", "s">>, "status"), Column(<<"N", "e", "x", "t", "F", "u", "e", "l", "i", "n", "g", "P", "l", "a", "n">>, "date"),
      Column(<<"l", "a", "t">>, "lat"), Column(<<"l", "n", "g">>, "lng")>>

LayoutSpaced ==
    <<Column(<<" ", "S", "i", "t", "e", " ", "N", "a", "m", "e", " ">>, "site"), Column(<<"R", "e", "g", "i", "o", "n", " ", "N", "a", "m", "e">>, "region"),
      Column(<<"C", "O", "W", " ", "S", "t", "a", "t", "u", "s">>, "status"), Column(<<"N", "e", "x", "t", " ", "F", "u", "e", "l", "i", "n", "g", " ", "P", "l", "a", "n">>, "date"),
      Column(<<" ", "L", "a", "t">>, "lat"), Column(<<"L", "N", "G", " ">>, "lng")>>

LayoutPermuted ==
    <<Column(<<"L", "n", "g">>, "lng"), Column(<<"L", "a", "t">>, "lat"), Column(<<"O", "w", "n", "e", "r">>, "site"),
      Column(<<"N", "e", "x", "t", "F", "u", "e", "l", "i", "n", "g", "P", "l", "a", "n">>, "date"), Column(<<"C", "O", "W", "S", "t", "a", "t", "u", "s">>, "status"),
      Column(<<"R", "e", "g", "i", "o", "n", "N", "a", "m", "e">>, "region"), Column(<<"S", "i", "t", "e", "N", "a", "m", "e">>, "site")>>

LayoutAliasDate ==
    <<Column(<<"S", "i", "t", "e", "N", "a", "m", "e">>, "site"), Column(<<"R", "e", "g", "i", "o", "n", "N", "a", "m", "e">>, "region"),
      Column(<<"C", "O", "W", "S", "t", "a", "t", "u", "s">>, "status"), Column(<<"N", "e", "x", "t", "F", "u", "e", "l", "D", "a", "t", "e">>, "date"),
      Column(<<"l", "a", "t">>, "lat"), Column(<<"l", "n", "g">>, "lng")>>

LayoutAliasRegion ==
    <<Column(<<"S", "i", "t", "e", "N", "a", "m", "e">>, "site"), Column(<<"R", "e", "g", "i", "o", "n">>, "region"),
      Column(<<"C", "O", "W", "S", "t", "a", "t", "u", "s">>, "status"), Column(<<"N", "e", "x", "t", "F", "u", "e", "l", "i", "n", "g", "P", "l", "a", "n">>, "date"),
      Column(<<"l", "a", "t">>, "lat"), Column(<<"l", "n", "g">>, "lng")>>

LayoutAliasBoth ==
    <<Column(<<"S", "i", "t", "e", "N", "a", "m", "e">>, "site"), Column(<<"R", "e", "g", "i", "o", "n">>, "region"),
      Column(<<"C", "O", "W", "S", "t", "a", "t", "u", "s">>, "status"), Column(<<"N", "e", "x", "t", " ", "F", "u", "e", "l", " ", "D", "a", "t", "e">>, "date"),
      Column(<<"l", "a", "t">>, "lat"), Column(<<"l", "n", "g">>, "lng")>>

Layouts == {LayoutCanonical, LayoutSpaced, LayoutPermuted,
            LayoutAliasDate, LayoutAliasRegion, LayoutAliasBoth}

HeaderOf(layout) == [j \in 1..Len(layout) |-> layout[j].name]

MkSheet(layout, rows) ==
    Sheet(HeaderOf(layout),
          [r \in 1..Len(rows) |-> [j \in 1..Len(layout) |-> rows[r][layout[j].field]]])

Sheets ==
    {MkSheet(LayoutCanonical, rows) : rows \in RowSeqs(MaxRows)}
    \cup {MkSheet(layout, rows) : layout \in Layouts, rows \in RowSeqs(MaxAltRows)}

\* what an earlier run may have left at CACHE_PATH
CachedSheet == MkSheet(LayoutCanonical, <<RowPadded, RowOffAir>>)

IdleRes == Ret(NoDate, <<>>, FALSE)

Init ==
    /\ live \in Sheets
    /\ cache \in {NoFile, File(CachedSheet)}
    /\ pc = "start"
    /\ df = EmptyFrame
    /\ loaded = EmptyFrame
    /\ stages = <<>>
    /\ parsedIdx = {}
    /\ cleanDf = <<>>
    /\ outputFile = NoOutput
    /\ writes = 0
    /\ err = NoErr
    /\ dIn = PyNone /\ dPc = "idle" /\ dRes = IdleRes

Next ==
    \/ LoadLive
    \/ LoadCache
    \/ LoadFails
    \/ NormaliseColumns
    \/ RegionFilter
    \/ StatusFilter
    \/ DateFilter
    \/ CoordFilter
    \/ BuildClean
    \/ generate_dashboard

Spec == Init /\ [][Next]_vars

-----------------------------------------------------------------------------
(* The values safe_parse_date is checked on *)

DayMonthVals == {0, 2, 3, 4, 12, 13, 29, 30, 31}
YearVals == {2024, 2025}
Separators == {"-", "/"}
MonthWords == { <<"D", "e", "c">>, <<"D", "E", "C">>, <<"f", "e", "b">>, <<"F", "o", "o">> }
Serials == {1, 45640, 45992}

NumericDateTexts ==
    {Pad2(a) \o <<sep>> \o Pad2(b) \o <<sep>> \o Pad4(y) :
        a \in DayMonthVals, b \in DayMonthVals, sep \in Separators, y \in YearVals}
    \cup {IntText(a) \o <<"-">> \o IntText(b) \o <<"-">> \o Pad4(2025) :
        a \in DayMonthVals, b \in DayMonthVals}
    \cup {Pad4(y) \o <<sep>> \o Pad2(a) \o <<sep>> \o Pad2(b) :
        a \in DayMonthVals, b \in DayMonthVals, sep \in Separators, y \in YearVals}

NamedMonthTexts ==
    {Pad2(d) \o sep \o w \o sep \o Pad4(y) :
        d \in {0, 15, 29, 31}, sep \in { <<"-">>, <<" ">>, <<" ", " ">> },
        w \in MonthWords, y \in YearVals}

BlankTexts == { <<>>, <<" ">>, <<" ", "\t">>, <<"\n">> }

PaddedTokens == UNION { {tok, <<" ">> \o tok, tok \o <<" ", " ">>} : tok \in ErrorTokens }

OtherTexts == { <<"T", "B", "D">>, <<" ", "1", "2", "-", "1", "5", "-", "2", "0", "2", "5", " ">>, <<"2", "0", "2", "5">>,
                <<"1", "-", " ", "5", "-", "2", "0", "2", "5">>, <<"#", "n", "/", "a">>, <<"4", "5", "6", "4", "0", ".", "0">>, <<"0", "1", "-", "0", "1", "-", "0", "0", "0", "0">> }

DateTexts == NumericDateTexts \cup NamedMonthTexts \cup BlankTexts
             \cup PaddedTokens \cup OtherTexts

DateValues ==
    {PyNone, NaN, DtV(MkDate(2025, 12, 15)), FltV(Fin(FALSE, 45640, <<"5">>)),
     FltV(NoFloat)}
    \cup {IntV(n) : n \in Serials}
    \cup {StrV(s) : s \in DateTexts}

DateInit ==
    /\ dIn \in DateValues
    /\ dPc = "call"
    /\ dRes = IdleRes
    /\ live = Sheet(<<>>, <<>>)
    /\ cache = NoFile
    /\ pc = "idle"
    /\ df = EmptyFrame
    /\ loaded = EmptyFrame
    /\ stages = <<>>
    /\ parsedIdx = {}
    /\ cleanDf = <<>>
    /\ outputFile = NoOutput
    /\ writes = 0
    /\ err = NoErr

\* the call safe_parse_date(dIn)
CallSafeParseDate ==
    /\ dPc = "call"
    /\ dRes' = SafeParseDate(dIn)
    /\ dPc' = "ret"
    /\ UNCHANGED <<dIn, live, cache, pc, df, loaded, stages, parsedIdx,
                   cleanDf, outputFile, writes, err>>

DateNext == CallSafeParseDate

DateSpec == DateInit /\ [][DateNext]_vars

-----------------------------------------------------------------------------
(* Reference predicates on the rows load_data returned *)

Seen(f) == {f[i] : i \in 1..Len(f)}

\* the cell of a loaded row under the header that normalises to `name`
LoadedCell(row, name) ==
    row.cells[CHOOSE j \in 1..Len(loaded.cols) : NormaliseHeader(loaded.cols[j]) = name]

Resolved == pc \in {"columns", "region", "status", "dates", "coords", "cleaned", "done"}

RefRegionOk(row) ==
    StrLower(StrStrip(PyStr(LoadedCell(row, region_col)))) = <<"c", "e", "n", "t", "r", "a", "l">>
RefStatusOk(row) ==
    StrUpper(StrStrip(PyStr(LoadedCell(row, status_col)))) \in { <<"O", "N", "-", "A", "I", "R">>, <<"I", "N", " ", "P", "R", "O", "G", "R", "E", "S", "S">> }
RefDateOk(row) ==
    SafeParseDate(LoadedCell(row, date_col)).out.k = "date"
RefCoordOk(row) ==
    /\ ToNumeric(LoadedCell(row, lat_col)).k # "nan"
    /\ ToNumeric(LoadedCell(row, lng_col)).k # "nan"

\* the first stage (1 region, 2 status, 3 dates, 4 coords) whose predicate
\* the row fails; 5 when it fails none
FirstFailing(row) ==
    IF ~RefRegionOk(row) THEN 1
    ELSE IF ~RefStatusOk(row) THEN 2
    ELSE IF ~RefDateOk(row) THEN 3
    ELSE IF ~RefCoordOk(row) THEN 4
    ELSE 5

\* the first recorded stage that no longer holds the row's index label;
\* Len(stages) + 1 when every recorded stage kept it
RemovedAt(row) ==
    LET gone == {i \in 1..Len(stages) : row.idx \notin Seen(stages[i].idx)}
    IN  IF gone = {} THEN Len(stages) + 1
        ELSE CHOOSE i \in gone : \A j \in gone : i <= j

\* a text of the form YYYY-MM-DD that names a calendar date
IsIsoDateText(s) ==
    /\ Len(s) = 10
    /\ s[5] = "-" /\ s[8] = "-"
    /\ AllDigits(SubSeq(s, 1, 4)) /\ AllDigits(SubSeq(s, 6, 7))
    /\ AllDigits(SubSeq(s, 9, 10))
    /\ ValidYMD(DigitsVal(SubSeq(s, 1, 4)), DigitsVal(SubSeq(s, 6, 7)),
                DigitsVal(SubSeq(s, 9, 10)))

-----------------------------------------------------------------------------
(* C1: every record written to OUTPUT_JSON has a region that is "central"  *)
(* after trim and case-fold, a status that is exactly ON-AIR or            *)
(* IN PROGRESS, a NextFuelingPlan that is the YYYY-MM-DD text of a         *)
(* calendar date, and a finite lat and lng.                                *)
C1_OutputRecordsValid ==
    outputFile.exists =>
        \A i \in 1..Len(outputFile.content) :
            LET rec == outputFile.content[i] IN
            /\ StrLower(StrStrip(rec.Region)) = <<"c", "e", "n", "t", "r", "a", "l">>
            /\ rec.COWStatus \in { <<"O", "N", "-", "A", "I", "R">>, <<"I", "N", " ", "P", "R", "O", "G", "R", "E", "S", "S">> }
            /\ IsIsoDateText(rec.NextFuelingPlan)
            /\ rec.lat.k = "fin"
            /\ rec.lng.k = "fin"

-----------------------------------------------------------------------------
\* the loaded rows safe_parse_date was applied to whose fueling-plan cell is
\* a number (not missing)
NumericDateRows ==
    {i \in 1..Len(loaded.rows) :
        /\ loaded.rows[i].idx \in parsedIdx
        /\ \/ LoadedCell(loaded.rows[i], date_col).t = "int"
           \/ /\ LoadedCell(loaded.rows[i], date_col).t = "flt"
              /\ LoadedCell(loaded.rows[i], date_col).f.k = "fin"}

SerialOf(v) == IF v.t = "int" THEN v.n ELSE v.f.ip

(* C2, as stated: a numeric fueling-plan value N >= 0 is read as the date   *)
(* 1899-12-30 plus N whole days, so the row passes the date filter with    *)
(* that date.                                                              *)
C2_SerialInterpreted ==
    pc = "dates" =>
        \A i \in NumericDateRows :
            \E k \in 1..Len(df.rows) :
                /\ df.rows[k].idx = loaded.rows[i].idx
                /\ df.rows[k].parsed_date =
                       SerialDate(SerialOf(LoadedCell(loaded.rows[i], date_col)))

(* C2, amended: there is no serial interpretation.  A numeric value is     *)
(* parsed as its text; a five-digit day serial such as 45640 matches none  *)
(* of the patterns and the fallback rejects it, so safe_parse_date gives   *)
(* None and the row is removed at the date stage.                          *)
C2_NumericParsedAsText ==
    pc \in {"dates", "coords", "cleaned", "done"} =>
        \A i \in NumericDateRows :
            LET v == LoadedCell(loaded.rows[i], date_col) IN
            (SerialOf(v) >= 10000 /\ SerialOf(v) <= 99999) =>
                /\ loaded.rows[i].idx \in Seen(stages[2].idx)
                /\ loaded.rows[i].idx \notin Seen(stages[3].idx)
                /\ \A k \in 1..Len(df.rows) : df.rows[k].idx # loaded.rows[i].idx

C2_Witness ==
    /\ pc = "done"
    /\ \E i \in NumericDateRows :
          /\ LoadedCell(loaded.rows[i], date_col) = IntV(45640)
          /\ RemovedAt(loaded.rows[i]) = 3

-----------------------------------------------------------------------------
(* C3: OUTPUT_JSON is written only after load_data and clean_and_filter    *)
(* have both completed; a run that ends with FileNotFoundError (no live    *)
(* sheet, no cache) or KeyError (a required column missing) never writes   *)
(* it.                                                                     *)
C3_WriteOnlyAfterSuccess ==
    /\ (writes > 0 \/ outputFile.exists) =>
          /\ pc = "done"
          /\ err = NoErr
          /\ Len(stages) = 4
          /\ writes = 1
    /\ pc = "aborted" =>
          /\ err.type \in {"FileNotFoundError", "KeyError"}
          /\ writes = 0
          /\ ~outputFile.exists
    /\ pc = "cleaned" => writes = 0 /\ ~outputFile.exists

C3_Witness ==
    /\ pc = "aborted"
    /\ err.type = "FileNotFoundError"
    /\ ~cache.exists
    /\ writes = 0 /\ ~outputFile.exists

-----------------------------------------------------------------------------
\* the names a logical field would be accepted under, were aliases matched
AliasesOf(c) ==
    IF c = date_col THEN {date_col, <<"n", "e", "x", "t", "f", "u", "e", "l", "d", "a", "t", "e">>}
    ELSE IF c = region_col THEN {region_col, <<"r", "e", "g", "i", "o", "n">>}
    ELSE {c}

LoadedHeaders == {NormaliseHeader(loaded.cols[j]) : j \in 1..Len(loaded.cols)}

(* C4, as stated: a table whose fueling-plan column is headed nextfueldate *)
(* or whose region column is headed region resolves.                       *)
C4_AliasesResolve ==
    (pc = "aborted" /\ err.type = "KeyError") =>
        \E i \in 1..Len(required) : AliasesOf(required[i]) \cap LoadedHeaders = {}

(* C4, amended: headers are normalised (trim, lower-case, blanks removed)  *)
(* and each logical field is matched against its one canonical name: the   *)
(* canonical and the spaced / mixed-case headers resolve, a header         *)
(* nextfueldate or region does not and the run ends with KeyError naming   *)
(* nextfuelingplan / regionname.                                           *)
C4_CanonicalNamesOnly ==
    pc \notin {"start", "loaded", "idle"} =>
        /\ loaded.cols \in {HeaderOf(LayoutCanonical), HeaderOf(LayoutSpaced),
                            HeaderOf(LayoutPermuted)}
             => Resolved /\ err = NoErr /\ \A i \in 1..6 : HasCol(df, required[i])
        /\ loaded.cols = HeaderOf(LayoutAliasDate)
             => pc = "aborted" /\ err = Error("KeyError", <<date_col>>)
        /\ loaded.cols = HeaderOf(LayoutAliasRegion)
             => pc = "aborted" /\ err = Error("KeyError", <<region_col>>)

C4_Witness ==
    /\ pc = "aborted"
    /\ loaded.cols = HeaderOf(LayoutAliasDate)
    /\ err = Error("KeyError", <<date_col>>)

-----------------------------------------------------------------------------
(* C5, as stated: the error of a failed resolution names every unresolved  *)
(* field and also lists the normalised headers of the table.               *)
C5_ErrorListsHeaders ==
    err.type = "KeyError" =>
        /\ \A i \in 1..Len(required) :
              required[i] \notin LoadedHeaders => required[i] \in Seen(err.listed)
        /\ \A h \in LoadedHeaders : h \in Seen(err.listed)

(* C5, amended: the one KeyError names every missing required column, each *)
(* once and in the order of `required`; it lists none of the headers the   *)
(* table has.                                                              *)
C5_ErrorNamesEveryMissing ==
    err.type = "KeyError" =>
        /\ pc = "aborted"
        /\ Seen(err.listed) = {required[i] : i \in 1..Len(required)} \ LoadedHeaders
        /\ \A i, j \in 1..Len(err.listed) : i # j => err.listed[i] # err.listed[j]
        /\ Seen(err.listed) \cap LoadedHeaders = {}
        /\ loaded.cols = HeaderOf(LayoutAliasBoth)
             => err.listed = <<region_col, date_col>>

C5_Witness ==
    /\ err.type = "KeyError"
    /\ loaded.cols = HeaderOf(LayoutAliasBoth)
    /\ err.listed = <<region_col, date_col>>

-----------------------------------------------------------------------------
\* the order of the patterns as the claim gives it: MM-DD-YYYY, YYYY-MM-DD,
\* DD-MM-YYYY, DD/MM/YYYY, MM/DD/YYYY, DD-Mon-YYYY, DD Mon YYYY
PatternOrder ==
    << <<"%m", "-", "%d", "-", "%Y">>, <<"%Y", "-", "%m", "-", "%d">>,
       <<"%d", "-", "%m", "-", "%Y">>, <<"%d", "/", "%m", "/", "%Y">>,
       <<"%m", "/", "%d", "/", "%Y">>, <<"%d", "-", "%b", "-", "%Y">>,
       <<"%d", " ", "%b", " ", "%Y">> >>

\* the call got as far as the patterns: a text (or the text of a number)
\* that is neither blank nor an error token
ReachedPatterns ==
    /\ dIn.t \in {"str", "int", "flt"}
    /\ ~PdIsNa(dIn)
    /\ StrStrip(PyStr(dIn)) # <<>>
    /\ StrStrip(PyStr(dIn)) \notin
         { <<"#", "N", "/", "A">>, <<"#", "D", "I", "V", "/", "0", "!">>, <<"#", "V", "A", "L", "U", "E", "!">>, <<"N", "/", "A">> }

(* C6: the patterns are tried in the fixed order above, each against the   *)
(* whole text; the first that parses gives the result and no later one is  *)
(* attempted; 03-04-2025 is March 4 2025; DD-MM-YYYY is used only for a    *)
(* text that is no valid MM-DD-YYYY date; the generic fallback is reached  *)
(* only when none of the seven parses.                                     *)
C6_FirstPatternWins ==
    (dPc = "ret" /\ ReachedPatterns) =>
        LET s  == StrStrip(PyStr(dIn))
            ok == {i \in 1..7 : Strptime(s, PatternOrder[i]).k = "date"}
        IN  /\ ok # {} =>
                LET first == CHOOSE i \in ok : \A j \in ok : i <= j IN
                /\ dRes.out = Strptime(s, PatternOrder[first])
                /\ dRes.tried = SubSeq(PatternOrder, 1, first)
                /\ ~dRes.fallback
            /\ ok = {} => dRes.fallback /\ dRes.tried = PatternOrder
            /\ dRes.fallback => ok = {}
            /\ s = <<"0", "3", "-", "0", "4", "-", "2", "0", "2", "5">> => dRes.out = MkDate(2025, 3, 4)
            /\ (~dRes.fallback /\ dRes.tried = SubSeq(PatternOrder, 1, 3))
                 => /\ Strptime(s, PatternOrder[1]).k = "raise"
                    /\ dRes.out = Strptime(s, PatternOrder[3])

C6_Witness ==
    /\ dPc = "ret"
    /\ dIn = StrV(<<"0", "3", "-", "0", "4", "-", "2", "0", "2", "5">>)
    /\ dRes.out = MkDate(2025, 3, 4)
    /\ Len(dRes.tried) = 1

-----------------------------------------------------------------------------
\* the argument is missing, blank, or an error token once trimmed
InvalidInput ==
    \/ dIn.t \in {"none", "nan"}
    \/ dIn.t = "flt" /\ dIn.f.k = "nan"
    \/ /\ dIn.t = "str"
       /\ \/ \A i \in 1..Len(dIn.s) : dIn.s[i] \in {" ", "\t", "\n", "\r"}
          \/ StrStrip(dIn.s) \in { <<"#", "N", "/", "A">>, <<"#", "D", "I", "V", "/", "0", "!">>, <<"#", "V", "A", "L", "U", "E", "!">>, <<"N", "/", "A">> }

-----------------------------------------------------------------------------
LoadedIdx == {loaded.rows[i].idx : i \in 1..Len(loaded.rows)}

Distinct(f) == \A i, j \in 1..Len(f) : i # j => f[i] # f[j]

(* C8: at each of the four filter stages the row count after the stage is  *)
(* at most the count before it (removed = before - after >= 0), each stage *)
(* works on what the previous one kept, and each input row gives one       *)
(* output record or none: never more records than rows, no row twice.      *)
C8_RowsNeverMultiply ==
    /\ \A i \in 1..Len(stages) :
          /\ stages[i].after <= stages[i].before
          /\ stages[i].removed = stages[i].before - stages[i].after
          /\ stages[i].removed >= 0
          /\ stages[i].before =
                (IF i = 1 THEN Len(loaded.rows) ELSE stages[i - 1].after)
          /\ Distinct(stages[i].idx)
          /\ Seen(stages[i].idx) \subseteq
                (IF i = 1 THEN LoadedIdx ELSE Seen(stages[i - 1].idx))
    /\ pc \in {"cleaned", "done"} =>
          /\ Len(cleanDf) = stages[4].after
          /\ \A i, j \in 1..Len(cleanDf) : i # j => cleanDf[i].idx # cleanDf[j].idx
          /\ \A i \in 1..Len(cleanDf) : cleanDf[i].idx \in LoadedIdx
    /\ outputFile.exists =>
          /\ Len(outputFile.content) = Len(cleanDf)
          /\ Len(outputFile.content) <= Len(loaded.rows)

C8_Witness ==
    /\ pc = "done"
    /\ Len(loaded.rows) = 2
    /\ stages[3].removed = 1
    /\ Len(outputFile.content) = 1

-----------------------------------------------------------------------------
-----------------------------------------------------------------------------
StageNames == <<"region", "status", "dates", "coords">>

(* C10: the filters run in the order region, status, date, coordinates,    *)
(* each on what the previous one kept: a row is removed at exactly the     *)
(* first stage whose predicate it fails and counted there only; a row of   *)
(* region North goes at the region stage whatever else it holds, a         *)
(* Central / ON-AIR row with a missing (#N/A) date at the date stage, a     *)
(* Central / ON-AIR row with a valid date and lat abc at the coordinate    *)
(* stage; safe_parse_date is applied to no row that failed the region or   *)
(* the status filter.                                                      *)
C10_FirstFailingStage ==
    /\ \A i \in 1..Len(stages) : stages[i].name = StageNames[i]
    /\ Len(stages) <= 4
    /\ Len(stages) =
          (CASE pc = "region" -> 1 [] pc = "status" -> 2 [] pc = "dates" -> 3
             [] pc \in {"coords", "cleaned", "done"} -> 4 [] OTHER -> 0)
    /\ \A i \in 1..Len(loaded.rows) :
          LET row == loaded.rows[i] IN
          /\ Len(stages) > 0 =>
                RemovedAt(row) = (IF FirstFailing(row) <= Len(stages)
                                  THEN FirstFailing(row) ELSE Len(stages) + 1)
          /\ (Len(stages) > 0 /\ PyStr(LoadedCell(row, region_col)) = <<"N", "o", "r", "t", "h">>)
                => RemovedAt(row) = 1
          /\ (Len(stages) >= 3 /\ RefRegionOk(row) /\ RefStatusOk(row)
                /\ LoadedCell(row, date_col) = NaN)
                => RemovedAt(row) = 3
          /\ (Len(stages) = 4 /\ RefRegionOk(row) /\ RefStatusOk(row) /\ RefDateOk(row)
                /\ LoadedCell(row, lat_col) = StrV(<<"a", "b", "c">>))
                => RemovedAt(row) = 4
    /\ \A k \in 1..Len(stages) :
          stages[k].removed =
             Cardinality({i \in 1..Len(loaded.rows) : FirstFailing(loaded.rows[i]) = k})
    /\ Len(stages) >= 3 =>
          parsedIdx = {loaded.rows[i].idx :
                         i \in {j \in 1..Len(loaded.rows) :
                                  RefRegionOk(loaded.rows[j]) /\ RefStatusOk(loaded.rows[j])}}
    /\ Len(stages) < 3 => parsedIdx = {}

C10_Witness ==
    /\ pc = "done"
    /\ Len(loaded.rows) = 2
    /\ stages[1].removed = 0 /\ stages[2].removed = 0
    /\ stages[3].removed = 1 /\ stages[4].removed = 1
    /\ \E i \in 1..2 : LoadedCell(loaded.rows[i], lat_col) = StrV(<<"a", "b", "c">>)
    /\ \E i \in 1..2 : LoadedCell(loaded.rows[i], date_col) = NaN

=============================================================================
